---- MODULE Spec2Model ----
(***************************************************************************)
(* The retrieval pipeline of cv_rag: TextProcessor (token chunking and     *)
(* token-budgeted context assembly), PgVectorClient.search and query_rag;  *)
(* the two ingestion scripts; and the /ask handler of the web server.      *)
(*                                                                         *)
(* Texts are sequences of characters, token streams are sequences of       *)
(* tokens.  Objects and call frames are record-valued variables:           *)
(*   tp   the TextProcessor object (its three configuration fields)        *)
(*   ct   the frame of one TextProcessor.chunk_text call                   *)
(*   ac   the frame of one TextProcessor.assemble_context call             *)
(*   db   the PgVectorClient object and the documents table behind it      *)
(*   qr   the frame of one query_rag call                                  *)
(*   log  the messages written through logger.error / logger.warning       *)
(*   se   the frame of one PgVectorClient.search call                      *)
(*   ing  the frame of one ingestion run (either ingestion script)         *)
(*   srv  the web server: its event loop and the /ask requests in flight   *)
(***************************************************************************)
EXTENDS Integers, Sequences, FiniteSets, TLC

VARIABLES tp, ct, ac, db, qr, log, se, ing, srv

vars == <<tp, ct, ac, db, qr, log, se, ing, srv>>

(***************************************************************************)
(* Bounds of the model                                                     *)
(***************************************************************************)
MaxTextLen == 4        \* characters of a document handed to chunk_text
MaxChunkSize == 4      \* largest chunk_size / chunk_overlap tried
MaxChunks == 3         \* ranked chunks handed to assemble_context
MaxRows == 2           \* rows of the documents table
MaxFiles == 3          \* files of the documents directory
MaxBatch == 3          \* largest batch_size tried besides the default
MaxRequests == 2       \* /ask requests sent to one server process
EmbeddingDim == 2      \* dimension of the embedding vectors

\* chunk_text iterations followed before the model stops following a loop
\* that does not end; a valid configuration needs at most MaxTextLen.
MaxIter == MaxTextLen + 2

Min(a, b) == IF a < b THEN a ELSE b
Max(a, b) == IF a > b THEN a ELSE b

(***************************************************************************)
(* Tokenizer (tiktoken encoding held in self.tokenizer).  A byte-pair      *)
(* vocabulary of the single characters plus the one merge "a"+"b" -> "ab". *)
(* encode applies the merge wherever it occurs; decode concatenates the    *)
(* tokens' characters.  Both split their argument in halves so that long   *)
(* texts are handled without deep recursion.                               *)
(***************************************************************************)
Chars == {"a", "b", " "}

RECURSIVE encode(_)
encode(text) ==
    IF Len(text) = 0 THEN <<>>
    ELSE IF Len(text) = 1 THEN <<text[1]>>
    ELSE IF text = <<"a", "b">> THEN <<"ab">>
    ELSE LET h == Len(text) \div 2
             m == IF text[h] = "a" /\ text[h + 1] = "b" THEN h + 1 ELSE h
         IN  encode(SubSeq(text, 1, m)) \o encode(SubSeq(text, m + 1, Len(text)))

RECURSIVE decode(_)
decode(tokens) ==
    IF Len(tokens) = 0 THEN <<>>
    ELSE IF Len(tokens) = 1
         THEN (IF tokens[1] = "ab" THEN <<"a", "b">> ELSE <<tokens[1]>>)
    ELSE LET h == Len(tokens) \div 2
         IN  decode(SubSeq(tokens, 1, h)) \o decode(SubSeq(tokens, h + 1, Len(tokens)))

\* TextProcessor.count_tokens
count_tokens(text) == IF text # <<>> THEN Len(encode(text)) ELSE 0

(***************************************************************************)
(* Python built-ins used by the code                                       *)
(***************************************************************************)
\* seq[lo:hi] with Python's treatment of negative and out-of-range indices
PyIndex(i, n) == IF i < 0 THEN Max(i + n, 0) ELSE Min(i, n)
PySlice(seq, lo, hi) ==
    SubSeq(seq, PyIndex(lo, Len(seq)) + 1, PyIndex(hi, Len(seq)))

\* str.strip(): leading and trailing whitespace removed
RECURSIVE strip(_)
strip(text) ==
    IF text = <<>> THEN <<>>
    ELSE IF text[1] = " " THEN strip(Tail(text))
    ELSE IF text[Len(text)] = " " THEN strip(SubSeq(text, 1, Len(text) - 1))
    ELSE text

(***************************************************************************)
(* TextProcessor.chunk_text, one action per step of its loop               *)
(***************************************************************************)
\* the guard clause with the whitespace test left out
NoTextEmptyOnly(text) == text = <<>>

\* if not text or not text.strip()
NoText(text) == text = <<>> \/ strip(text) = <<>>

\* the dict appended per window, numbered by its start instead of a counter
ChunkIdFromStart(chunk_tokens, chunk_id, start, end, source) ==
    [content |-> decode(chunk_tokens),
     chunk_id |-> start,
     token_count |-> Len(chunk_tokens),
     start_token |-> start,
     end_token |-> end,
     source |-> source]

\* the dict appended per window
Chunk(chunk_tokens, chunk_id, start, end, source) ==
    [content |-> decode(chunk_tokens),
     chunk_id |-> chunk_id,
     token_count |-> Len(chunk_tokens),
     start_token |-> start,
     end_token |-> end,
     source |-> source]

\* start += self.chunk_size - self.chunk_overlap
NextStart(start, chunk_size, chunk_overlap) == start + chunk_size - chunk_overlap

\* while start < len(tokens)
LoopTest(start, tokens) == start < Len(tokens)

\* the guard clause and the initialisation before the loop
ChunkTextCall ==
    /\ ct.pc = "call"
    /\ IF NoText(ct.text)
       THEN ct' = [ct EXCEPT !.pc = "returned", !.chunks = <<>>]
       ELSE ct' = [ct EXCEPT !.pc = "loop",
                             !.tokens = encode(ct.text),
                             !.chunks = <<>>,
                             !.start = 0,
                             !.chunk_id = 0]
    /\ UNCHANGED <<tp, ac, db, qr, log, se, ing, srv>>

\* one iteration of the while loop
ChunkTextLoop ==
    /\ ct.pc = "loop"
    /\ LoopTest(ct.start, ct.tokens)
    /\ Len(ct.chunks) < MaxIter
    /\ LET end == Min(ct.start + tp.chunk_size, Len(ct.tokens))
           chunk_tokens == PySlice(ct.tokens, ct.start, end)
       IN  ct' = [ct EXCEPT
                    !.chunks = Append(ct.chunks,
                                 Chunk(chunk_tokens, ct.chunk_id, ct.start, end, ct.source)),
                    !.start = NextStart(ct.start, tp.chunk_size, tp.chunk_overlap),
                    !.chunk_id = ct.chunk_id + 1]
    /\ UNCHANGED <<tp, ac, db, qr, log, se, ing, srv>>

\* the loop test fails: return chunks
ChunkTextReturn ==
    /\ ct.pc = "loop"
    /\ ~LoopTest(ct.start, ct.tokens)
    /\ ct' = [ct EXCEPT !.pc = "returned"]
    /\ UNCHANGED <<tp, ac, db, qr, log, se, ing, srv>>

(***************************************************************************)
(* TextProcessor.assemble_context                                          *)
(***************************************************************************)
\* dict.get(key, default)
Get(d, key, default) == IF key \in DOMAIN d THEN d[key] ELSE default

FLOOR_MIN == 500

\* available = max(self.max_context_tokens - reserved, 500)
AvailableNoFloor(max_context_tokens, reserved) == max_context_tokens - reserved
AvailableMin(max_context_tokens, reserved) ==
    Min(max_context_tokens - reserved, FLOOR_MIN)
Available(max_context_tokens, reserved) ==
    Max(max_context_tokens - reserved, FLOOR_MIN)

\* if used_tokens + chunk_tokens > available
OverBudgetChunkOnly(used_tokens, chunk_tokens, available) == chunk_tokens > available
OverBudget(used_tokens, chunk_tokens, available) ==
    used_tokens + chunk_tokens > available

Marker == <<".", ".", ".">>

\* TextProcessor._truncate
TruncateNoMarker(text, max_tokens) ==
    LET tokens == encode(text)
    IN  IF Len(tokens) <= max_tokens THEN text
        ELSE decode(PySlice(tokens, 0, max_tokens))
truncate(text, max_tokens) ==
    LET tokens == encode(text)
    IN  IF Len(tokens) <= max_tokens THEN text
        ELSE decode(PySlice(tokens, 0, max_tokens)) \o Marker

\* TextProcessor._format_chunk: header, newline, content
format_chunk(chunk, content) ==
    LET source == Get(chunk, "source", "unknown")
        chunk_id == Get(chunk, "chunk_id", 0)
        similarity == Get(chunk, "similarity", 0)
        header == <<"[", source, " | Chunk ", ToString(chunk_id)>>
                  \o (IF similarity > 0
                      THEN <<" | Similarity ", ToString(similarity)>> ELSE <<>>)
                  \o <<"]">>
    IN  header \o <<"\n">> \o content

\* the branch taken by the chunk that does not fit: the first chunk is kept,
\* truncated to the remaining budget; any later one is dropped
OnOverflowDrop(chunk, parts, used_tokens, available) == parts
OnOverflow(chunk, parts, used_tokens, available) ==
    IF parts = <<>>
    THEN LET remaining == available - used_tokens
             content == truncate(chunk.content, remaining)
         IN  Append(parts, format_chunk(chunk, content))
    ELSE parts

\* the for loop over chunks, from chunk i on
RECURSIVE Walk(_, _, _, _, _)
Walk(chunks, i, parts, used_tokens, available) ==
    IF i > Len(chunks)
    THEN [parts |-> parts, used_tokens |-> used_tokens]
    ELSE LET chunk == chunks[i]
             chunk_tokens == Get(chunk, "token_count", 0)
         IN  IF OverBudget(used_tokens, chunk_tokens, available)
             THEN [parts |-> OnOverflow(chunk, parts, used_tokens, available),
                   used_tokens |-> used_tokens]
             ELSE Walk(chunks, i + 1,
                       Append(parts, format_chunk(chunk, chunk.content)),
                       used_tokens + chunk_tokens, available)

\* "\n\n---\n\n".join(parts)
RECURSIVE Join(_)
Join(parts) ==
    IF parts = <<>> THEN <<>>
    ELSE IF Len(parts) = 1 THEN parts[1]
    ELSE parts[1] \o <<"\n\n---\n\n">> \o Join(Tail(parts))

\* the whole call: its locals and the string it returns
assemble_context(max_context_tokens, chunks, question, system_prompt_tokens, answer_reserve_tokens) ==
    IF chunks = <<>>
    THEN [available |-> 0, parts |-> <<>>, used_tokens |-> 0, context |-> <<>>]
    ELSE LET question_tokens == count_tokens(question)
             reserved == question_tokens + system_prompt_tokens + answer_reserve_tokens
             available == Available(max_context_tokens, reserved)
             w == Walk(chunks, 1, <<>>, 0, available)
         IN  [available |-> available, parts |-> w.parts,
              used_tokens |-> w.used_tokens, context |-> Join(w.parts)]

AssembleContext ==
    /\ ac.pc = "call"
    /\ LET r == assemble_context(tp.max_context_tokens, ac.chunks, ac.question,
                                 ac.system_prompt_tokens, ac.answer_reserve_tokens)
       IN  ac' = [ac EXCEPT !.pc = "returned",
                            !.available = r.available,
                            !.parts = r.parts,
                            !.used_tokens = r.used_tokens,
                            !.context = r.context]
    /\ UNCHANGED <<tp, ct, db, qr, log, se, ing, srv>>

(***************************************************************************)
(* Config (config/config.py).  Similarities are in hundredths.             *)
(***************************************************************************)
CHUNK_SIZE == 750
CHUNK_OVERLAP == 125
MAX_CONTEXT_TOKENS == 3500
TOP_K_CHUNKS == 6
SIMILARITY_THRESHOLD == 65
DEFAULT_SYSTEM_PROMPT_TOKENS == 150
DEFAULT_ANSWER_RESERVE_TOKENS == 500

(***************************************************************************)
(* PgVectorClient.search over the documents table.  Embeddings are integer *)
(* vectors of Euclidean length 5, so that cosine similarity is rational.   *)
(***************************************************************************)
RECURSIVE Dot(_, _)
Dot(u, v) ==
    IF u = <<>> \/ v = <<>> THEN 0
    ELSE u[1] * v[1] + Dot(Tail(u), Tail(v))

Vectors(dim) == {v \in [1..dim -> {0, 3, 4, 5}] : Dot(v, v) = 25}

\* 1 - (embedding <=> query): the cosine similarity
Similarity(embedding, query_embedding) ==
    (100 * Dot(embedding, query_embedding)) \div 25

\* WHERE clause left out: every row matches
MatchesAll(rows, query_embedding, similarity_threshold) ==
    {i \in 1..Len(rows) : TRUE}

\* WHERE 1 - (embedding <=> %s) >= %s
Matches(rows, query_embedding, similarity_threshold) ==
    {i \in 1..Len(rows) :
        Similarity(rows[i].embedding, query_embedding) >= similarity_threshold}

\* the result dict built from a fetched row
ResultRow(row, query_embedding) ==
    [content |-> row.content,
     source |-> row.source,
     chunk_id |-> row.chunk_id,
     start_token |-> row.start_token,
     end_token |-> row.end_token,
     token_count |-> row.token_count,
     similarity |-> Similarity(row.embedding, query_embedding)]

\* The answers the SELECT may give: the matching rows, ORDER BY distance,
\* LIMIT k.  Rows at equal distance come in an order the store chooses.
Selections(rows, query_embedding, k, similarity_threshold) ==
    LET match == Matches(rows, query_embedding, similarity_threshold)
        n == Min(Max(k, 0), Cardinality(match))
        sim(i) == Similarity(rows[i].embedding, query_embedding)
    IN  {sel \in [1..n -> match] :
            /\ \A a, b \in 1..n : a < b => sel[a] # sel[b] /\ sim(sel[a]) >= sim(sel[b])
            /\ \A i \in match :
                  (\A a \in 1..n : sel[a] # i) => \A a \in 1..n : sim(sel[a]) >= sim(i)}

\* what search gives its caller: the fetched rows, or [] from the except clause
\* when cursor.execute or fetchall raised (the error is logged, not raised)
SearchReturn(failed, rows, sel, query_embedding) ==
    IF failed THEN <<>>
    ELSE [j \in 1..Len(sel) |-> ResultRow(rows[sel[j]], query_embedding)]

(***************************************************************************)
(* query_rag (main.py), one action per step of the pipeline                *)
(***************************************************************************)
NO_ANSWER == "I couldn't find relevant information to answer your question."

\* The attributes class Config defines; MAX_NEW_TOKENS is commented out.
ConfigAttributes ==
    {"HF_TOKEN", "EMBEDDING_MODEL", "LLM_MODEL", "DATABASE_URL", "EMBEDDING_DIM",
     "CHUNK_SIZE", "CHUNK_OVERLAP", "MAX_CONTEXT_TOKENS", "TOP_K_CHUNKS",
     "SIMILARITY_THRESHOLD", "TEMPERATURE", "RATE_LIMIT"}

\* The dimensions the embedding model may give: the model is named by
\* EMBEDDING_MODEL, the column width by EMBEDDING_DIM, and nothing ties them.
EmbedDims(embedding_dim) == {embedding_dim, embedding_dim + 1}

\* The distance operator of the store raises for a row and a query vector of
\* different dimensions; an empty table computes no distance.
StoreRaises(rows, embedding_dim, query_embedding) ==
    rows # <<>> /\ Len(query_embedding) # embedding_dim

\* whether cursor.execute / fetchall of a search may raise
Failures(rows, embedding_dim, query_embedding) ==
    IF StoreRaises(rows, embedding_dim, query_embedding) THEN {TRUE} ELSE BOOLEAN

\* the dict query_rag returns after generation (execution_time left out)
Result(answer, chunks) ==
    [answer |-> answer,
     sources |-> {Get(chunks[i], "source", "unknown") : i \in 1..Len(chunks)},
     num_chunks |-> Len(chunks)]

\* if not chunks: the early return of query_rag
EarlyReturn(chunks) == chunks = <<>>

\* Step 1: hf_client.get_embeddings([question])[0]; a failure is raised as
\* RuntimeError, logged by query_rag and raised again
QueryEmbed ==
    /\ qr.pc = "embed"
    /\ \/ \E dim \in EmbedDims(db.embedding_dim) : \E v \in Vectors(dim) :
            /\ qr' = [qr EXCEPT !.pc = "search",
                                !.calls = Append(qr.calls, "get_embeddings"),
                                !.query_embedding = v]
            /\ UNCHANGED log
       \/ /\ qr' = [qr EXCEPT !.pc = "raised",
                              !.calls = Append(qr.calls, "get_embeddings"),
                              !.error = "RuntimeError"]
          /\ log' = log \cup {"Embedding generation failed", "RAG query failed"}
    /\ UNCHANGED <<tp, ct, ac, db, se, ing, srv>>

\* Step 2: db_client.search(...), then the early return when nothing came back
QuerySearch ==
    /\ qr.pc = "search"
    /\ \E failed \in Failures(db.rows, db.embedding_dim, qr.query_embedding) :
       \E sel \in Selections(db.rows, qr.query_embedding,
                             TOP_K_CHUNKS, SIMILARITY_THRESHOLD) :
         LET chunks == SearchReturn(failed, db.rows, sel, qr.query_embedding)
         IN  /\ IF EarlyReturn(chunks)
                THEN qr' = [qr EXCEPT !.pc = "returned",
                                      !.calls = Append(qr.calls, "search"),
                                      !.chunks = chunks,
                                      !.result = [answer |-> NO_ANSWER,
                                                  sources |-> {},
                                                  num_chunks |-> 0]]
                ELSE qr' = [qr EXCEPT !.pc = "assemble",
                                      !.calls = Append(qr.calls, "search"),
                                      !.chunks = chunks]
             /\ log' = log
                       \cup (IF failed THEN {"Search failed"} ELSE {})
                       \cup (IF EarlyReturn(chunks)
                             THEN {"No chunks found matching similarity threshold"}
                             ELSE {})
    /\ db' = [db EXCEPT !.executes = db.executes + 1]
    /\ UNCHANGED <<tp, ct, ac, se, ing, srv>>

\* Step 3: text_processor.assemble_context(chunks, question=question)
QueryAssemble ==
    /\ qr.pc = "assemble"
    /\ qr' = [qr EXCEPT
                !.pc = "generate",
                !.calls = Append(qr.calls, "assemble_context"),
                !.context = assemble_context(tp.max_context_tokens, qr.chunks,
                                qr.question, DEFAULT_SYSTEM_PROMPT_TOKENS,
                                DEFAULT_ANSWER_RESERVE_TOKENS).context]
    /\ UNCHANGED <<tp, ct, ac, db, log, se, ing, srv>>

\* Step 4: the arguments of hf_client.generate_answer are evaluated first, and
\* Config.MAX_NEW_TOKENS raises AttributeError when Config lacks the attribute;
\* otherwise generate_answer is called, and its failure is a RuntimeError.
\* query_rag logs either exception and raises it again.
QueryGenerate ==
    /\ qr.pc = "generate"
    /\ IF "MAX_NEW_TOKENS" \notin ConfigAttributes
       THEN /\ qr' = [qr EXCEPT !.pc = "raised", !.error = "AttributeError"]
            /\ log' = log \cup {"RAG query failed"}
       ELSE \/ /\ qr' = [qr EXCEPT
                           !.pc = "returned",
                           !.calls = Append(qr.calls, "generate_answer"),
                           !.answer = "generated answer",
                           !.result = Result("generated answer", qr.chunks)]
               /\ UNCHANGED log
            \/ /\ qr' = [qr EXCEPT !.pc = "raised",
                                   !.calls = Append(qr.calls, "generate_answer"),
                                   !.error = "RuntimeError"]
               /\ log' = log \cup {"Answer generation failed", "RAG query failed"}
    /\ UNCHANGED <<tp, ct, ac, db, se, ing, srv>>

(***************************************************************************)
(* Idle values of the objects and frames a specification does not use      *)
(***************************************************************************)
IdleCt == [pc |-> "idle", text |-> <<>>, source |-> "", tokens |-> <<>>,
           chunks |-> <<>>, start |-> 0, chunk_id |-> 0]
IdleAc == [pc |-> "idle"]
NoCursor == [owner |-> 0, results |-> <<>>]
IdleDb == [embedding_dim |-> 0, rows |-> <<>>, executes |-> 0, closed |-> FALSE,
           cursor |-> NoCursor]
IdleQr == [pc |-> "idle"]
IdleSe == [pc |-> "idle"]
IdleIng == [pc |-> "idle"]
IdleSrv == [pc |-> "idle"]

(***************************************************************************)
(* SpecChunk: a TextProcessor built with any chunk_size / chunk_overlap    *)
(* (the constructor validates nothing) chunks any short text.              *)
(***************************************************************************)
Texts == UNION {[1..n -> Chars] : n \in 0..MaxTextLen}

DEFAULT_MAX_CONTEXT_TOKENS == 2000

InitChunk ==
    /\ tp \in [chunk_size : 1..MaxChunkSize,
               chunk_overlap : 0..MaxChunkSize,
               max_context_tokens : {DEFAULT_MAX_CONTEXT_TOKENS}]
    /\ ct \in [pc : {"call"}, text : Texts, source : {"cv.txt"}, tokens : {<<>>},
               chunks : {<<>>}, start : {0}, chunk_id : {0}]
    /\ ac = IdleAc
    /\ db = IdleDb
    /\ qr = IdleQr
    /\ log = {}
    /\ se = IdleSe
    /\ ing = IdleIng
    /\ srv = IdleSrv

NextChunk == ChunkTextCall \/ ChunkTextLoop \/ ChunkTextReturn

SpecChunk == InitChunk /\ [][NextChunk]_vars

(***************************************************************************)
(* Claims about chunk_text, checked under SpecChunk                        *)
(***************************************************************************)
ValidConfig == 0 <= tp.chunk_overlap /\ tp.chunk_overlap < tp.chunk_size

\* tokens shared by the windows of chunks i and i + 1
Shared(chunks, i) == chunks[i].end_token - chunks[i + 1].start_token

\* C1: with chunk_overlap >= chunk_size (a step of zero or less) a call on a
\* text that has tokens fails fast, raising a ConfigurationError before the loop
\* is entered; and the loop always ends, its body running at most once per token.
C1_FailsFast ==
    /\ (/\ tp.chunk_overlap >= tp.chunk_size
        /\ ct.pc \notin {"idle", "call"}
        /\ strip(ct.text) # <<>>) => ct.pc = "raised"
    /\ ct.pc = "loop" => Len(ct.chunks) <= Len(ct.tokens)

\* C4: for n >= 1 tokens and 0 <= overlap < chunk_size the returned windows
\* cover [0, n) without gaps (the first starts at 0, the last ends at n, each
\* next one starts at or before the end of the one before) and every
\* consecutive pair shares exactly chunk_overlap tokens, except the pair that
\* ends in the last window, which may share fewer.
C4_CoverExactOverlap ==
    (ct.pc = "returned" /\ ValidConfig /\ Len(ct.tokens) >= 1) =>
        LET c == ct.chunks
            k == Len(c)
        IN  /\ k >= 1
            /\ c[1].start_token = 0
            /\ c[k].end_token = Len(ct.tokens)
            /\ \A i \in 1..(k - 1) :
                  /\ c[i + 1].start_token <= c[i].end_token
                  /\ IF i + 1 < k
                     THEN Shared(c, i) = tp.chunk_overlap
                     ELSE Shared(c, i) <= tp.chunk_overlap

\* C5: a non-empty document of n < chunk_size tokens, chunked with a valid
\* overlap, yields exactly one chunk, with start_token = 0 and
\* end_token = token_count = n.
C5_ShortDocOneChunk ==
    (/\ ct.pc = "returned"
     /\ ValidConfig
     /\ Len(ct.tokens) >= 1
     /\ Len(ct.tokens) < tp.chunk_size) =>
        /\ Len(ct.chunks) = 1
        /\ ct.chunks[1].start_token = 0
        /\ ct.chunks[1].end_token = Len(ct.tokens)
        /\ ct.chunks[1].token_count = Len(ct.tokens)

\* C15: with valid parameters the chunk_id values of the chunks are exactly
\* 0, 1, ..., len - 1 in list order, and start_token strictly increases with
\* chunk_id.
C15_ChunkIdsInOrder ==
    ValidConfig =>
        /\ \A i \in 1..Len(ct.chunks) : ct.chunks[i].chunk_id = i - 1
        /\ \A i \in 1..(Len(ct.chunks) - 1) :
              ct.chunks[i].start_token < ct.chunks[i + 1].start_token

\* a valid call returned several chunks, its step larger than one token
C15_Witness ==
    /\ ValidConfig
    /\ ct.pc = "returned"
    /\ Len(ct.chunks) >= 2
    /\ tp.chunk_size - tp.chunk_overlap >= 2

\* C16: every chunk emitted by chunk_text has end_token - start_token equal to
\* token_count, token_count > 0, 0 <= start_token, end_token <= len(tokens) and
\* token_count <= chunk_size.
C16_ChunkBounds ==
    \A i \in 1..Len(ct.chunks) :
        LET c == ct.chunks[i]
        IN  /\ c.end_token - c.start_token = c.token_count
            /\ c.token_count > 0
            /\ 0 <= c.start_token
            /\ c.end_token <= Len(ct.tokens)
            /\ c.token_count <= tp.chunk_size

\* every character of the text is whitespace (the empty text included)
Blank(text) == \A i \in 1..Len(text) : text[i] = " "

\* C18: for the empty string and for every whitespace-only string chunk_text
\* returns the empty list without raising and without entering its loop,
\* whatever chunk_size and chunk_overlap are, invalid pairs included.
C18_BlankGivesNoChunks ==
    (Blank(ct.text) /\ ct.pc # "call") =>
        /\ ct.pc = "returned"
        /\ ct.chunks = <<>>

\* a whitespace-only text was chunked by a processor whose overlap is not
\* smaller than its chunk size
C18_Witness ==
    /\ Blank(ct.text)
    /\ Len(ct.text) >= 2
    /\ tp.chunk_overlap >= tp.chunk_size
    /\ ct.pc = "returned"
    /\ ct.chunks = <<>>

(***************************************************************************)
(* SpecAssemble: assemble_context applied to ranked chunk lists.  A ranked *)
(* chunk is a chunk as chunk_text builds it (token_count tokens of content)*)
(* with the similarity search adds.                                        *)
(***************************************************************************)
\* a token stream of n tokens, as encode produces them
ContentTokens(n) ==
    [i \in 1..n |-> IF i % 3 = 1 THEN "ab" ELSE IF i % 3 = 2 THEN " " ELSE "a"]

TokenCounts == {10, 40, 300, 501, 600}

RankedChunk(n, rank) ==
    Chunk(ContentTokens(n), rank - 1, 0, n, "cv.txt")
        @@ [similarity |-> 950 - 50 * rank]

RankedLists ==
    UNION {{[i \in 1..k |-> RankedChunk(f[i], i)] : f \in [1..k -> TokenCounts]}
           : k \in 0..MaxChunks}

\* a question of five tokens and the empty question
Questions == {<<"a", "b", " ", "a", "b", " ", "a", "b">>, <<>>}

\* (system_prompt_tokens, answer_reserve_tokens): the defaults and a small pair
Reserves == {<<150, 500>>, <<10, 20>>}

MaxContextTokens == {100, 1200}

InitAssemble ==
    /\ tp \in [chunk_size : {750}, chunk_overlap : {125},
               max_context_tokens : MaxContextTokens]
    /\ \E r \in Reserves :
         ac \in [pc : {"call"}, chunks : RankedLists, question : Questions,
                 system_prompt_tokens : {r[1]}, answer_reserve_tokens : {r[2]},
                 available : {0}, parts : {<<>>}, used_tokens : {0},
                 context : {<<>>}]
    /\ ct = IdleCt
    /\ db = IdleDb
    /\ qr = IdleQr
    /\ log = {}
    /\ se = IdleSe
    /\ ing = IdleIng
    /\ srv = IdleSrv

NextAssemble == AssembleContext

SpecAssemble == InitAssemble /\ [][NextAssemble]_vars

(***************************************************************************)
(* Claims about assemble_context, checked under SpecAssemble               *)
(***************************************************************************)
\* the content of a formatted block: what follows the header's newline
BlockContent(block) ==
    LET nl == CHOOSE j \in 1..Len(block) :
                  block[j] = "\n" /\ \A i \in 1..(j - 1) : block[i] # "\n"
    IN  SubSeq(block, nl + 1, Len(block))

EndsWithMarker(text) ==
    Len(text) >= 3 /\ SubSeq(text, Len(text) - 2, Len(text)) = <<".", ".", ".">>

\* the block's content is the chunk's own text, whole
IsWholeBlockOf(block, chunk) == block = format_chunk(chunk, chunk.content)

\* the block belongs to the chunk: it starts with the chunk's header line
IsBlockOf(block, chunk) ==
    LET head == format_chunk(chunk, <<>>)
    IN  Len(block) >= Len(head) /\ SubSeq(block, 1, Len(head)) = head

RECURSIVE SumTokenCounts(_, _)
SumTokenCounts(chunks, j) ==
    IF j = 0 THEN 0 ELSE SumTokenCounts(chunks, j - 1) + chunks[j].token_count

\* length of the longest prefix of chunks whose token_counts add up to <= budget
LongestPrefix(chunks, budget) ==
    CHOOSE k \in 0..Len(chunks) :
        /\ SumTokenCounts(chunks, k) <= budget
        /\ \A j \in (k + 1)..Len(chunks) : SumTokenCounts(chunks, j) > budget

Assembled == ac.pc = "returned" /\ ac.chunks # <<>>

FirstOverBudget == Assembled /\ ac.chunks[1].token_count > ac.available

\* C6: a non-empty ranked list always assembles to a non-empty context that
\* holds at least one formatted block, and its first block is the first
\* chunk's, also when that chunk alone exceeds the available budget.
C6_NeverEmpty ==
    Assembled =>
        /\ Len(ac.parts) >= 1
        /\ ac.context # <<>>
        /\ IsBlockOf(ac.parts[1], ac.chunks[1])
        /\ IsBlockOf(ac.context, ac.chunks[1])

C6_Witness == FirstOverBudget /\ ac.context # <<>>

\* C7: when the first ranked chunk's token_count exceeds the available budget,
\* the one block emitted is that chunk's text cut to a proper prefix of at most
\* `available` tokens, followed by the marker "..."; the whole text is not
\* emitted.
C7_FirstChunkTruncated ==
    FirstOverBudget =>
        LET text == ac.chunks[1].content
            out == BlockContent(ac.parts[1])
            kept == SubSeq(out, 1, Len(out) - 3)
        IN  /\ Len(ac.parts) = 1
            /\ IsBlockOf(ac.parts[1], ac.chunks[1])
            /\ EndsWithMarker(out)
            /\ Len(kept) < Len(text)
            /\ kept = SubSeq(text, 1, Len(kept))
            /\ count_tokens(kept) <= ac.available
            /\ ~IsWholeBlockOf(ac.parts[1], ac.chunks[1])

C7_Witness == FirstOverBudget /\ Len(ac.chunks) >= 2 /\ Len(ac.parts) = 1

\* C8: the blocks emitted whole are exactly the longest prefix of the ranked
\* list, in order, whose cumulative token_count is <= available; the walk stops
\* at the first chunk that would overflow and nothing after it is included.
C8_GreedyPrefix ==
    Assembled =>
        LET k == LongestPrefix(ac.chunks, ac.available)
            whole == SelectSeq(ac.parts, LAMBDA b : ~EndsWithMarker(BlockContent(b)))
        IN  /\ Len(whole) = k
            /\ \A i \in 1..k : IsWholeBlockOf(whole[i], ac.chunks[i])
            /\ \A i \in 1..k : ac.parts[i] = whole[i]
            /\ Len(ac.parts) = IF k = 0 THEN 1 ELSE k
            /\ ac.used_tokens = SumTokenCounts(ac.chunks, k)

\* a chunk after the stopping point that would still fit the budget left
C8_Witness ==
    /\ Assembled
    /\ Len(ac.parts) >= 1
    /\ \E j \in (Len(ac.parts) + 2)..Len(ac.chunks) :
          ac.used_tokens + ac.chunks[j].token_count <= ac.available

\* the call of the budget example: max_context_tokens = 100, reserves 10 and 20,
\* a question of 5 tokens, chunks of 40, 40 and 10 tokens
C9_Input ==
    /\ Assembled
    /\ tp.max_context_tokens = 100
    /\ ac.system_prompt_tokens = 10
    /\ ac.answer_reserve_tokens = 20
    /\ count_tokens(ac.question) = 5
    /\ Len(ac.chunks) = 3
    /\ ac.chunks[1].token_count = 40
    /\ ac.chunks[2].token_count = 40
    /\ ac.chunks[3].token_count = 10

\* C9 as stated: in the budget example the available budget is 65 and the three
\* chunks assemble to exactly one formatted block, the first chunk only.
C9_Budget65OneBlock ==
    C9_Input => (ac.available = 65 /\ Len(ac.parts) = 1)

\* C9 as amended: in the budget example the available budget is 500 (the floor
\* applies to 100 - 35 = 65) and the three chunks, 90 tokens in all, assemble
\* to three whole formatted blocks in the given order.
C9_Budget500ThreeBlocks ==
    C9_Input =>
        /\ ac.available = 500
        /\ Len(ac.parts) = 3
        /\ \A i \in 1..3 : IsWholeBlockOf(ac.parts[i], ac.chunks[i])
        /\ ac.used_tokens = 90

C9_Witness == C9_Input /\ IsWholeBlockOf(ac.parts[1], ac.chunks[1])

\* C10: the budget used is max(max_context_tokens - (count(question) +
\* system_prompt_tokens + answer_reserve_tokens), 500), so it is never below
\* 500, also when the reserves exceed max_context_tokens.
C10_BudgetFloor ==
    Assembled =>
        LET d == tp.max_context_tokens
                 - (count_tokens(ac.question) + ac.system_prompt_tokens
                    + ac.answer_reserve_tokens)
        IN  /\ ac.available >= 500
            /\ ac.available >= d
            /\ ac.available \in {d, 500}

C10_Witness ==
    /\ Assembled
    /\ ac.system_prompt_tokens + ac.answer_reserve_tokens > tp.max_context_tokens
    /\ ac.available = 500

(***************************************************************************)
(* SpecQuery: one query_rag call against a store holding up to MaxRows     *)
(* chunks; each external call (embedding, store, generation) may fail.     *)
(***************************************************************************)
StoredRow(i, embedding) ==
    Chunk(<<"ab", " ">>, i - 1, 2 * (i - 1), 2 * i, "cv.txt")
        @@ [embedding |-> embedding]

Stores ==
    UNION {{[i \in 1..n |-> StoredRow(i, e[i])] : e \in [1..n -> Vectors(EmbeddingDim)]}
           : n \in 0..MaxRows}

InitQuery ==
    /\ tp = [chunk_size |-> CHUNK_SIZE, chunk_overlap |-> CHUNK_OVERLAP,
             max_context_tokens |-> MAX_CONTEXT_TOKENS]
    /\ db \in [embedding_dim : {EmbeddingDim}, rows : Stores,
                executes : {0}, closed : {FALSE}, cursor : {NoCursor}]
    /\ qr = [pc |-> "embed",
             question |-> <<"a", "b", " ", "a", "b", " ", "a", "b">>,
             query_embedding |-> <<>>, chunks |-> <<>>, context |-> <<>>,
             answer |-> "", result |-> [answer |-> ""],
             calls |-> <<>>, error |-> ""]
    /\ ct = IdleCt
    /\ ac = IdleAc
    /\ log = {}
    /\ se = IdleSe
    /\ ing = IdleIng
    /\ srv = IdleSrv

NextQuery == QueryEmbed \/ QuerySearch \/ QueryAssemble \/ QueryGenerate

SpecQuery == InitQuery /\ [][NextQuery]_vars

(***************************************************************************)
(* Claims about search and query_rag, checked under SpecQuery              *)
(***************************************************************************)
\* query_rag is past its search step
Searched == Len(qr.calls) >= 2

\* C2: a search that hits a store error raises to its caller and never
\* returns an empty list; an empty list comes back only from a query that ran
\* and found no row meeting the similarity threshold.
C2_SearchErrorRaised ==
    /\ "Search failed" \in log => qr.pc = "raised"
    /\ (Searched /\ qr.chunks = <<>>) =>
          /\ "Search failed" \notin log
          /\ Matches(db.rows, qr.query_embedding, SIMILARITY_THRESHOLD) = {}

\* C3: a run of query_rag in which the embedding call, the store search or the
\* generation call failed gives its caller a failure: it never returns a result
\* dict carrying an answer.
C3_NoAnswerOnFailure ==
    (\/ "Embedding generation failed" \in log
     \/ "Search failed" \in log
     \/ "Answer generation failed" \in log) =>
        /\ qr.pc # "returned"
        /\ qr.result.answer = ""

\* the calls of the pipeline, in the order query_rag makes them
PIPELINE == <<"get_embeddings", "search", "assemble_context", "generate_answer">>

\* query_rag has returned or raised
QueryEnded == qr.pc \in {"returned", "raised"}

\* C17: a search whose query vector's dimension differs from the store's
\* embedding dimension fails with a ConfigurationError, detected before any
\* round trip to the store is made.
C17_DimensionChecked ==
    (/\ qr.query_embedding # <<>>
     /\ Len(qr.query_embedding) # db.embedding_dim
     /\ qr.pc # "search") =>
        /\ qr.pc = "raised"
        /\ qr.error = "ConfigurationError"
        /\ db.executes = 0

Thresholds == {0, 65, 80, 100}

InitSearch ==
    /\ tp = [chunk_size |-> CHUNK_SIZE, chunk_overlap |-> CHUNK_OVERLAP,
             max_context_tokens |-> MAX_CONTEXT_TOKENS]
    /\ db \in [embedding_dim : {EmbeddingDim}, rows : Stores,
                executes : {0}, closed : {FALSE}, cursor : {NoCursor}]
    /\ se \in [pc : {"call"},
               query_embedding : Vectors(EmbeddingDim),
               k : 0..(MaxRows + 1),
               similarity_threshold : Thresholds,
               failed : {FALSE},
               results : {<<>>}]
    /\ ct = IdleCt
    /\ ac = IdleAc
    /\ qr = IdleQr
    /\ log = {}
    /\ ing = IdleIng
    /\ srv = IdleSrv

\* search: cursor.execute and fetchall, or the except clause
Search ==
    /\ se.pc = "call"
    /\ \E failed \in BOOLEAN :
       \E sel \in Selections(db.rows, se.query_embedding, se.k,
                             se.similarity_threshold) :
          /\ se' = [se EXCEPT
                      !.pc = "returned",
                      !.failed = failed,
                      !.results = SearchReturn(failed, db.rows, sel,
                                               se.query_embedding)]
          /\ log' = log \cup (IF failed THEN {"Search failed"} ELSE {})
    /\ db' = [db EXCEPT !.executes = db.executes + 1]
    /\ UNCHANGED <<tp, ct, ac, qr, ing, srv>>

NextSearch == Search

SpecSearch == InitSearch /\ [][NextSearch]_vars

(***************************************************************************)
(* Claims about search, checked under SpecSearch                           *)
(***************************************************************************)
\* the search returned without entering its except clause
SearchSucceeded == se.pc = "returned" /\ ~se.failed

\* the stored rows meeting the threshold of the call
Meeting ==
    {i \in 1..Len(db.rows) :
        Similarity(db.rows[i].embedding, se.query_embedding)
            >= se.similarity_threshold}

\* the stored row a result was built from (chunk ids are unique in the store)
RowOf(result) == CHOOSE i \in 1..Len(db.rows) : db.rows[i].chunk_id = result.chunk_id

RECURSIVE chunk_loop(_, _, _, _, _, _, _)
chunk_loop(tokens, start, chunk_id, chunks, source, chunk_size, chunk_overlap) ==
    IF ~LoopTest(start, tokens) THEN chunks
    ELSE LET end == Min(start + chunk_size, Len(tokens))
             chunk_tokens == PySlice(tokens, start, end)
         IN  chunk_loop(tokens, NextStart(start, chunk_size, chunk_overlap),
                        chunk_id + 1,
                        Append(chunks, Chunk(chunk_tokens, chunk_id, start, end, source)),
                        source, chunk_size, chunk_overlap)

chunk_text(text, source, chunk_size, chunk_overlap) ==
    IF NoText(text) THEN <<>>
    ELSE chunk_loop(encode(text), 0, 0, <<>>, source, chunk_size, chunk_overlap)

\* A file of the run: its name, whether open/read succeeds, and its text.
\* chunk_file raises for a file that is missing or cannot be decoded.
Readable(file) == file.readable

chunk_file(file, chunk_size, chunk_overlap) ==
    chunk_text(file.text, file.name, chunk_size, chunk_overlap)

\* the for loop body of extract_chunks: no try, the exception leaves the loop
ExtractStepNoTry(script, all_chunks, file, chunk_size, chunk_overlap) ==
    IF Readable(file)
    THEN [raised |-> FALSE,
          all_chunks |-> all_chunks \o chunk_file(file, chunk_size, chunk_overlap)]
    ELSE [raised |-> TRUE, all_chunks |-> all_chunks]

\* One iteration of the for loop over the files.  extract_documents wraps
\* chunk_file in try/except Exception and goes on; extract_chunks does not.
ExtractStep(script, all_chunks, file, chunk_size, chunk_overlap) ==
    IF Readable(file)
    THEN [raised |-> FALSE,
          all_chunks |-> all_chunks \o chunk_file(file, chunk_size, chunk_overlap)]
    ELSE [raised |-> script # "ingest_documents", all_chunks |-> all_chunks]

\* The embedding model is a function of the text; the vector it gives is
\* modelled by two features of the text.
EmbedOf(text) == <<Len(text), count_tokens(text)>>

\* hf_client.get_embeddings(texts) when the call succeeds
get_embeddings(texts) == [j \in 1..Len(texts) |-> EmbedOf(texts[j])]

\* texts = [chunk['content'] for chunk in batch]
ContentsOf(batch) == [j \in 1..Len(batch) |-> batch[j].content]

\* all_embeddings.extend(batch_embeddings), written the wrong way round
ExtendFront(all_embeddings, batch_embeddings) == batch_embeddings \o all_embeddings

\* all_embeddings.extend(batch_embeddings)
Extend(all_embeddings, batch_embeddings) == all_embeddings \o batch_embeddings

\* embeddings attached batch by batch instead of after the loop
AttachEarly(chunks, all_embeddings) ==
    [i \in 1..Len(chunks) |->
        IF i <= Len(all_embeddings)
        THEN chunks[i] @@ [embedding |-> all_embeddings[i]]
        ELSE chunks[i]]

\* what the chunk dicts hold while the batch loop runs: nothing is attached
\* before the loop has ended
DuringBatches(chunks, all_embeddings) == chunks

\* for i, chunk in enumerate(chunks): chunk['embedding'] = all_embeddings[i]
Attach(chunks, all_embeddings) ==
    [i \in 1..Len(chunks) |-> chunks[i] @@ [embedding |-> all_embeddings[i]]]

\* ingest_documents: extract_documents raises when the directory is missing
\* (the finally clause closes the connection); main of insert_documents has
\* no such test
IngestStart ==
    /\ ing.pc = "start"
    /\ IF ing.script = "ingest_documents" /\ ~ing.docs_dir
       THEN /\ ing' = [ing EXCEPT !.pc = "raised", !.error = "FileNotFoundError"]
            /\ db' = [db EXCEPT !.closed = TRUE]
       ELSE /\ ing' = [ing EXCEPT !.pc = "extract"]
            /\ UNCHANGED db
    /\ UNCHANGED <<tp, ct, ac, qr, log, se, srv>>

\* one iteration of the for loop over the files
IngestExtract ==
    /\ ing.pc = "extract"
    /\ ing.i <= Len(ing.files)
    /\ LET file == ing.files[ing.i]
           step == ExtractStep(ing.script, ing.all_chunks, file,
                               tp.chunk_size, tp.chunk_overlap)
       IN  /\ IF step.raised
              THEN ing' = [ing EXCEPT !.pc = "raised", !.error = "FileNotFoundError"]
              ELSE ing' = [ing EXCEPT !.all_chunks = step.all_chunks,
                                      !.i = ing.i + 1]
           /\ log' = IF ~Readable(file) /\ ~step.raised
                     THEN log \cup {"Failed to process"}
                     ELSE log
    /\ UNCHANGED <<tp, ct, ac, db, qr, se, srv>>

\* the loop over the files has ended; ingest_documents returns early, through
\* its finally clause, when there is no chunk
IngestExtractDone ==
    /\ ing.pc = "extract"
    /\ ing.i > Len(ing.files)
    /\ IF ing.script = "ingest_documents" /\ ing.all_chunks = <<>>
       THEN /\ ing' = [ing EXCEPT !.pc = "returned"]
            /\ db' = [db EXCEPT !.closed = TRUE]
            /\ log' = log \cup {"No documents found or processed"}
       ELSE /\ ing' = [ing EXCEPT !.pc = "embed"]
            /\ UNCHANGED <<db, log>>
    /\ UNCHANGED <<tp, ct, ac, qr, se, srv>>

\* generate_embeddings: one get_embeddings call for all the chunks; a failure
\* is logged and raised as RuntimeError by get_embeddings
IngestEmbed ==
    /\ ing.pc = "embed"
    /\ ing.script = "ingest_documents"
    /\ \/ /\ ing' = [ing EXCEPT
                       !.pc = "load",
                       !.all_embeddings = get_embeddings(ContentsOf(ing.all_chunks)),
                       !.all_chunks = Attach(ing.all_chunks,
                                        get_embeddings(ContentsOf(ing.all_chunks)))]
          /\ UNCHANGED <<db, log>>
       \/ /\ ing' = [ing EXCEPT !.pc = "raised", !.error = "RuntimeError"]
          /\ db' = [db EXCEPT !.closed = TRUE]
          /\ log' = log \cup {"Embedding generation failed"}
    /\ UNCHANGED <<tp, ct, ac, qr, se, srv>>

\* transform_chunks_with_embeddings: one iteration of the loop over batches
InsertEmbedBatch ==
    /\ ing.pc = "embed"
    /\ ing.script = "insert_documents"
    /\ ing.start < Len(ing.all_chunks)
    /\ LET batch == PySlice(ing.all_chunks, ing.start, ing.start + ing.batch_size)
           all_embeddings == Extend(ing.all_embeddings,
                                    get_embeddings(ContentsOf(batch)))
       IN  \/ /\ ing' = [ing EXCEPT
                           !.all_embeddings = all_embeddings,
                           !.all_chunks = DuringBatches(ing.all_chunks, all_embeddings),
                           !.start = ing.start + ing.batch_size]
              /\ UNCHANGED log
           \/ /\ ing' = [ing EXCEPT !.pc = "raised", !.error = "RuntimeError"]
              /\ log' = log \cup {"Embedding generation failed"}
    /\ UNCHANGED <<tp, ct, ac, db, qr, se, srv>>

\* transform_chunks_with_embeddings: the loop that attaches the embeddings
InsertEmbedAttach ==
    /\ ing.pc = "embed"
    /\ ing.script = "insert_documents"
    /\ ing.start >= Len(ing.all_chunks)
    /\ ing' = [ing EXCEPT !.pc = "load",
                          !.all_chunks = Attach(ing.all_chunks, ing.all_embeddings)]
    /\ UNCHANGED <<tp, ct, ac, db, qr, log, se, srv>>

\* the parameters of PgVectorClient.insert_chunks after self
InsertChunksParams == <<"chunks", "embeddings">>

\* the arguments load_to_database and load_chunks_to_database pass to it
LoadArgs == <<"chunks">>

\* the tuple insert_chunks builds for one chunk and its embedding
InsertedRow(chunk, embedding) ==
    [content |-> chunk.content,
     embedding |-> embedding,
     source |-> Get(chunk, "source", "unknown"),
     chunk_id |-> Get(chunk, "chunk_id", 0),
     start_token |-> Get(chunk, "start_token", 0),
     end_token |-> Get(chunk, "end_token", 0),
     token_count |-> Get(chunk, "token_count", 0)]

\* the body of insert_chunks: ValueError on a length mismatch, else the rows
\* of zip(chunks, embeddings) are written and committed, or the store fails,
\* the transaction is rolled back and RuntimeError is raised
insert_chunks(rows, chunks, embeddings, store_fails) ==
    IF Len(chunks) # Len(embeddings)
    THEN [error |-> "ValueError", rows |-> rows]
    ELSE IF store_fails
    THEN [error |-> "RuntimeError", rows |-> rows]
    ELSE [error |-> "",
          rows |-> rows \o [j \in 1..Len(chunks) |->
                               InsertedRow(chunks[j], embeddings[j])]]

\* load_to_database / load_chunks_to_database call insert_chunks(chunks) with
\* one argument; insert_chunks takes chunks and embeddings, so the call raises
\* TypeError before its body runs and no row is written.  The finally clause
\* of ingest_documents closes the connection; main of insert_documents has
\* none and never calls close.
IngestLoad ==
    /\ ing.pc = "load"
    /\ IF Len(LoadArgs) # Len(InsertChunksParams)
       THEN /\ ing' = [ing EXCEPT !.pc = "raised", !.error = "TypeError"]
            /\ db' = [db EXCEPT !.closed = (ing.script = "ingest_documents")]
       ELSE \E store_fails \in BOOLEAN :
               LET ret == insert_chunks(db.rows, ing.all_chunks,
                                        ing.all_embeddings, store_fails)
               IN  /\ ing' = [ing EXCEPT
                                !.pc = IF ret.error = "" THEN "returned" ELSE "raised",
                                !.error = ret.error]
                   /\ db' = [db EXCEPT !.rows = ret.rows,
                                       !.closed = (ing.script = "ingest_documents")]
    /\ UNCHANGED <<tp, ct, ac, qr, log, se, srv>>

(***************************************************************************)
(* SpecIngest: one run of either script over up to MaxFiles files          *)
(***************************************************************************)
DEFAULT_BATCH_SIZE == 32

BatchSizes == (1..MaxBatch) \cup {DEFAULT_BATCH_SIZE}

FileTexts ==
    {<<" ">>, <<"a", "b", " ", "a">>, decode(ContentTokens(CHUNK_SIZE - 50))}

FileKinds ==
    {[readable |-> FALSE, text |-> <<>>]}
        \cup {[readable |-> TRUE, text |-> t] : t \in FileTexts}

FileName(i) == "doc" \o ToString(i) \o ".txt"

\* the files in the order the loop visits them
FileLists ==
    UNION {{[i \in 1..n |-> f[i] @@ [name |-> FileName(i)]] : f \in [1..n -> FileKinds]}
           : n \in 0..MaxFiles}

InitIngest ==
    /\ tp = [chunk_size |-> CHUNK_SIZE, chunk_overlap |-> CHUNK_OVERLAP,
             max_context_tokens |-> MAX_CONTEXT_TOKENS]
    /\ db = [embedding_dim |-> EmbeddingDim, rows |-> <<>>,
             executes |-> 0, closed |-> FALSE, cursor |-> NoCursor]
    /\ ing \in [script : {"ingest_documents", "insert_documents"},
                pc : {"start"},
                docs_dir : BOOLEAN,
                files : FileLists,
                i : {1},
                all_chunks : {<<>>},
                batch_size : BatchSizes,
                start : {0},
                all_embeddings : {<<>>},
                error : {""}]
    /\ ing.script = "ingest_documents" => ing.batch_size = DEFAULT_BATCH_SIZE
    /\ ing.script = "insert_documents" => ing.docs_dir
    /\ ct = IdleCt
    /\ ac = IdleAc
    /\ qr = IdleQr
    /\ log = {}
    /\ se = IdleSe
    /\ srv = IdleSrv

NextIngest ==
    \/ IngestStart
    \/ IngestExtract
    \/ IngestExtractDone
    \/ IngestEmbed
    \/ InsertEmbedBatch
    \/ InsertEmbedAttach
    \/ IngestLoad

SpecIngest == InitIngest /\ [][NextIngest]_vars

(***************************************************************************)
(* Claims about ingestion, checked under SpecIngest                        *)
(***************************************************************************)
\* the chunks of the readable files of a list, file after file
RECURSIVE GoodChunks(_)
GoodChunks(files) ==
    IF files = <<>> THEN <<>>
    ELSE (IF files[1].readable
          THEN chunk_text(files[1].text, files[1].name, tp.chunk_size, tp.chunk_overlap)
          ELSE <<>>) \o GoodChunks(Tail(files))

\* a chunk dict without its 'embedding' key
WithoutEmbedding(chunk) == [key \in DOMAIN chunk \ {"embedding"} |-> chunk[key]]

\* the chunk list of the run, embeddings left aside
ExtractedChunks ==
    [j \in 1..Len(ing.all_chunks) |-> WithoutEmbedding(ing.all_chunks[j])]

\* the run is extract_documents' script, past the test of the directory
InExtractDocuments ==
    ing.script = "ingest_documents" /\ ing.pc # "start" /\ ing.docs_dir

\* C12: in extract_documents a file that cannot be read is skipped and the
\* files after it are still processed: the list holds, in file order, every
\* chunk of every readable file visited so far, wherever the unreadable files
\* stand, and the loop always reaches the last file.
C12_BadFileSkipped ==
    InExtractDocuments =>
        /\ ExtractedChunks = GoodChunks(SubSeq(ing.files, 1, ing.i - 1))
        /\ ing.pc # "extract" => ing.i = Len(ing.files) + 1
        /\ ing.error # "FileNotFoundError"

\* extraction ended with an unreadable file standing between two readable
\* files that both gave chunks
C12_Witness ==
    /\ InExtractDocuments
    /\ ing.pc = "embed"
    /\ \E a, b, c \in 1..Len(ing.files) :
          /\ a < b /\ b < c
          /\ ~ing.files[b].readable
          /\ \E j, k \in 1..Len(ing.all_chunks) :
                /\ ing.all_chunks[j].source = ing.files[a].name
                /\ ing.all_chunks[k].source = ing.files[c].name

\* the embedding step of the run has succeeded
Embedded == ing.pc = "load" \/ ing.error = "TypeError"

\* C13: once transform_chunks_with_embeddings (any batch_size >= 1) or
\* generate_embeddings has succeeded, chunk i carries the embedding of its own
\* content, and the chunk list is the one a single unbatched call gives.
C13_BatchingKeepsPairing ==
    Embedded =>
        /\ \A j \in 1..Len(ing.all_chunks) :
              /\ "embedding" \in DOMAIN ing.all_chunks[j]
              /\ ing.all_chunks[j].embedding = EmbedOf(ing.all_chunks[j].content)
        /\ ing.all_chunks
              = Attach(ExtractedChunks, get_embeddings(ContentsOf(ExtractedChunks)))

\* the batched transform succeeded over more than one batch, on chunks whose
\* contents differ
C13_Witness ==
    /\ Embedded
    /\ ing.script = "insert_documents"
    /\ ing.batch_size >= 1
    /\ Len(ing.all_chunks) > ing.batch_size
    /\ ing.all_chunks[1].embedding # ing.all_chunks[Len(ing.all_chunks)].embedding

\* a get_embeddings call of the run has failed
EmbeddingFailed == "Embedding generation failed" \in log

\* C14: when the embedding call fails for any batch the step fails with a
\* RuntimeError wrapping the cause and leaves no partial result: no chunk has
\* an 'embedding' key and no row is inserted into the store.
C14_NoPartialEmbedding ==
    EmbeddingFailed =>
        /\ ing.pc = "raised"
        /\ ing.error = "RuntimeError"
        /\ \A j \in 1..Len(ing.all_chunks) : "embedding" \notin DOMAIN ing.all_chunks[j]
        /\ db.rows = <<>>

\* a batch failed after an earlier batch had succeeded
C14_Witness ==
    /\ EmbeddingFailed
    /\ ing.script = "insert_documents"
    /\ Len(ing.all_embeddings) >= 1
    /\ Len(ing.all_embeddings) < Len(ing.all_chunks)

(***************************************************************************)
(* The web server (main.py): one process, one event loop, the clients      *)
(* built once by startup_event and shared by the handlers.  ask_question   *)
(* is a coroutine that calls query_rag directly and awaits nothing, so the *)
(* event loop cannot switch to another handler before it returns.          *)
(* srv.active is the set of requests whose handler has begun and not       *)
(* returned; srv.reqs[r] is the frame of request r.                        *)
(***************************************************************************)
Requests == 1..MaxRequests

\* a handler invoked from a worker thread, as a plain def endpoint would be:
\* it can begin while another handler is running
MayBeginInThread(active) == TRUE

\* the event loop starts a handler only when no coroutine is running; a
\* running ask_question has no await at which it could be suspended
MayBegin(active) == active = {}

\* if not question or len(question.strip()) < 3
TooShort(question) == question = <<>> \/ Len(strip(question)) < 3

\* the handler returns its response: the request leaves the event loop
Respond(r, response) ==
    srv' = [srv EXCEPT !.active = srv.active \ {r},
                       !.reqs[r].pc = "done",
                       !.reqs[r].response = response]

\* ask_question begins: the question is validated
AskBegin(r) ==
    /\ srv.reqs[r].pc = "pending"
    /\ MayBegin(srv.active)
    /\ IF TooShort(srv.reqs[r].question)
       THEN srv' = [srv EXCEPT !.reqs[r].pc = "done",
                               !.reqs[r].response = "invalid"]
       ELSE srv' = [srv EXCEPT !.active = srv.active \cup {r},
                               !.reqs[r].pc = "embed"]
    /\ UNCHANGED <<tp, ct, ac, db, qr, log, se, ing>>

\* The embedding model is a function of the text: the requests of one server
\* ask the same question and get the same vector for it.
EmbedQuestion(question, dim) == CHOOSE v \in Vectors(dim) : TRUE

\* query_rag step 1 for request r
AskEmbed(r) ==
    /\ r \in srv.active
    /\ srv.reqs[r].pc = "embed"
    /\ \/ /\ \E dim \in EmbedDims(db.embedding_dim) :
               srv' = [srv EXCEPT !.reqs[r].pc = "execute",
                                  !.reqs[r].query_embedding =
                                      EmbedQuestion(srv.reqs[r].question, dim)]
          /\ UNCHANGED log
       \/ /\ Respond(r, "error")
          /\ log' = log \cup {"Embedding generation failed", "RAG query failed"}
    /\ UNCHANGED <<tp, ct, ac, db, qr, se, ing>>

\* search for request r, first half: cursor.execute sends the query and
\* leaves its result set in the cursor of the shared db_client; when it raises,
\* search returns [] and query_rag takes its early return
AskExecute(r) ==
    /\ r \in srv.active
    /\ srv.reqs[r].pc = "execute"
    /\ \E failed \in Failures(db.rows, db.embedding_dim, srv.reqs[r].query_embedding) :
       \E sel \in Selections(db.rows, srv.reqs[r].query_embedding,
                             TOP_K_CHUNKS, SIMILARITY_THRESHOLD) :
          IF failed
          THEN /\ Respond(r, "answer")
               /\ db' = [db EXCEPT !.executes = db.executes + 1]
               /\ log' = log \cup {"Search failed",
                                   "No chunks found matching similarity threshold"}
          ELSE /\ srv' = [srv EXCEPT !.reqs[r].pc = "fetch"]
               /\ db' = [db EXCEPT
                           !.executes = db.executes + 1,
                           !.cursor = [owner |-> r,
                                       results |-> SearchReturn(FALSE, db.rows, sel,
                                                     srv.reqs[r].query_embedding)]]
               /\ UNCHANGED log
    /\ UNCHANGED <<tp, ct, ac, qr, se, ing>>

\* search for request r, second half: cursor.fetchall takes whatever result
\* set the shared cursor holds; then the early return when it is empty
AskFetch(r) ==
    /\ r \in srv.active
    /\ srv.reqs[r].pc = "fetch"
    /\ LET chunks == db.cursor.results
       IN  /\ IF EarlyReturn(chunks)
              THEN /\ srv' = [srv EXCEPT !.active = srv.active \ {r},
                                         !.reqs[r].pc = "done",
                                         !.reqs[r].response = "answer",
                                         !.reqs[r].fetched_from = db.cursor.owner]
                   /\ log' = log \cup {"No chunks found matching similarity threshold"}
              ELSE /\ srv' = [srv EXCEPT !.reqs[r].pc = "assemble",
                                         !.reqs[r].chunks = chunks,
                                         !.reqs[r].fetched_from = db.cursor.owner]
                   /\ UNCHANGED log
    /\ db' = [db EXCEPT !.cursor = NoCursor]
    /\ UNCHANGED <<tp, ct, ac, qr, se, ing>>

\* query_rag step 3 for request r
AskAssemble(r) ==
    /\ r \in srv.active
    /\ srv.reqs[r].pc = "assemble"
    /\ srv' = [srv EXCEPT
                 !.reqs[r].pc = "generate",
                 !.reqs[r].context =
                     assemble_context(tp.max_context_tokens, srv.reqs[r].chunks,
                         srv.reqs[r].question, DEFAULT_SYSTEM_PROMPT_TOKENS,
                         DEFAULT_ANSWER_RESERVE_TOKENS).context]
    /\ UNCHANGED <<tp, ct, ac, db, qr, log, se, ing>>

\* query_rag step 4 for request r, and the response of ask_question: the
\* answer page, or the error page from its except clause
AskGenerate(r) ==
    /\ r \in srv.active
    /\ srv.reqs[r].pc = "generate"
    /\ IF "MAX_NEW_TOKENS" \notin ConfigAttributes
       THEN /\ Respond(r, "error")
            /\ log' = log \cup {"RAG query failed"}
       ELSE \/ /\ Respond(r, "answer")
               /\ UNCHANGED log
            \/ /\ Respond(r, "error")
               /\ log' = log \cup {"Answer generation failed", "RAG query failed"}
    /\ UNCHANGED <<tp, ct, ac, db, qr, se, ing>>

(***************************************************************************)
(* SpecServer: MaxRequests /ask requests arrive at one server process      *)
(***************************************************************************)
AskQuestions == {<<"a", "b">>, <<"a", "b", " ", "a", "b", " ", "a", "b">>}

PendingRequest(question) ==
    [pc |-> "pending", question |-> question, query_embedding |-> <<>>,
     chunks |-> <<>>, context |-> <<>>, fetched_from |-> 0, response |-> ""]

InitServer ==
    /\ tp = [chunk_size |-> CHUNK_SIZE, chunk_overlap |-> CHUNK_OVERLAP,
             max_context_tokens |-> MAX_CONTEXT_TOKENS]
    /\ db \in [embedding_dim : {EmbeddingDim}, rows : Stores,
                executes : {0}, closed : {FALSE}, cursor : {NoCursor}]
    /\ \E questions \in [Requests -> AskQuestions] :
          srv = [pc |-> "serving",
                 active |-> {},
                 reqs |-> [r \in Requests |-> PendingRequest(questions[r])]]
    /\ ct = IdleCt
    /\ ac = IdleAc
    /\ qr = IdleQr
    /\ log = {}
    /\ se = IdleSe
    /\ ing = IdleIng

NextServer ==
    \E r \in Requests :
        \/ AskBegin(r)
        \/ AskEmbed(r)
        \/ AskExecute(r)
        \/ AskFetch(r)
        \/ AskAssemble(r)
        \/ AskGenerate(r)

SpecServer == InitServer /\ [][NextServer]_vars

(***************************************************************************)
(* Claims about the server, checked under SpecServer                       *)
(***************************************************************************)
\* the requests whose query is under way
InQuery == {r \in Requests : srv.reqs[r].pc \notin {"pending", "done"}}

\* C19: within one server process queries are processed one at a time: no
\* step of a query is taken while another query is between its first and its
\* last step, so at most one query is under way, the result set waiting in the
\* shared cursor belongs to that query, and every query fetches its own rows.
C19_OneQueryAtATime ==
    /\ Cardinality(InQuery) <= 1
    /\ db.cursor.owner # 0 => InQuery = {db.cursor.owner}
    /\ \A r \in Requests : srv.reqs[r].fetched_from \in {0, r}

\* two queries have both gone through execute and fetch on the shared cursor
C19_Witness ==
    /\ \A r \in Requests : srv.reqs[r].pc = "done"
    /\ \E r1, r2 \in Requests :
          /\ r1 # r2
          /\ srv.reqs[r1].fetched_from = r1
          /\ srv.reqs[r2].fetched_from = r2

\* the ingestion run has returned or raised
RunEnded == ing.pc \in {"returned", "raised"}

\* every extracted chunk carries an embedding: the embedding step succeeded
AllEmbedded ==
    /\ ing.all_chunks # <<>>
    /\ \A j \in 1..Len(ing.all_chunks) : "embedding" \in DOMAIN ing.all_chunks[j]

\* C21: an ingestion run in which chunking gives at least one chunk and
\* embedding succeeds ends, unless the store itself fails the insert, with one
\* new row per extracted chunk, row j pairing the content and metadata of
\* chunk j with chunk j's own embedding; and every run that got past the
\* initialisation of the components has closed the database connection by the
\* time it ends.
C21_RowsLoadedAndClosed ==
    RunEnded =>
        /\ (AllEmbedded /\ ing.error # "RuntimeError") =>
              /\ Len(db.rows) = Len(ing.all_chunks)
              /\ \A j \in 1..Len(ing.all_chunks) :
                    /\ db.rows[j].embedding = EmbedOf(ing.all_chunks[j].content)
                    /\ \A key \in DOMAIN ing.all_chunks[j] :
                          db.rows[j][key] = ing.all_chunks[j][key]
        /\ db.closed

=============================================================================
